---- MODULE Spec2Model ----
(***************************************************************************)
(* Retail-Analytics-Copilot: the LangGraph workflow of                     *)
(* agent/graph_hybrid.py and the batch driver of run_agent_hybrid.py.      *)
(*                                                                         *)
(* Python values are tagged records [t |-> type, v |-> payload]; Python    *)
(* strings are TLA+ strings, handled character by character.               *)
(***************************************************************************)
EXTENDS Integers, Sequences, FiniteSets, TLC

(***************************************************************************)
(* Python values                                                           *)
(***************************************************************************)
NoneV == [t |-> "none", v |-> 0]
IntV(n) == [t |-> "int", v |-> n]
\* a float is held as its number of thousandths: 12.5 is FloatV(12500)
FloatV(m) == [t |-> "float", v |-> m]
StrV(s) == [t |-> "str", v |-> s]
\* a list holds a sequence of values, a dict a sequence of <<key, value>>
ListV(xs) == [t |-> "list", v |-> xs]
DictV(kvs) == [t |-> "dict", v |-> kvs]
BoolV(b) == [t |-> "bool", v |-> b]

IsStr(x) == x.t = "str"
IsNone(x) == x.t = "none"

\* Python truthiness of a value (bool(x))
Truthy(x) ==
    CASE x.t = "none" -> FALSE
      [] x.t = "str" -> x.v # ""
      [] x.t = "int" -> x.v # 0
      [] x.t = "float" -> x.v # 0
      [] x.t = "bool" -> x.v
      [] x.t = "list" -> x.v # <<>>
      [] x.t = "dict" -> x.v # <<>>

(***************************************************************************)
(* Python string methods                                                   *)
(***************************************************************************)
Ch(s, i) == SubSeq(s, i, i)
\* s[i-1 : j] with the end clipped to the string, as Python slices are
Slice(s, i, j) == SubSeq(s, i, IF j > Len(s) THEN Len(s) ELSE j)

UpperChars == "ABCDEFGHIJKLMNOPQRSTUVWXYZ"
LowerChars == "abcdefghijklmnopqrstuvwxyz"
DigitChars == "0123456789"

\* the characters of a string, as a set
CharSet(chars) == {Ch(chars, i) : i \in 1..Len(chars)}
UpperSet == CharSet(UpperChars)
AlphaSet == CharSet(UpperChars \o LowerChars)
DigitSet == CharSet(DigitChars)
WordSet == AlphaSet \cup DigitSet \cup {"_"}

IsSpace(c) == c \in {" ", "\n", "\t", "\r"}
IsDigit(c) == c \in DigitSet
IsAlpha(c) == c \in AlphaSet
\* \w of the re module (ASCII part)
IsWordCh(c) == c \in WordSet

\* the lower-case letter of each upper-case letter
LowerOf ==
    [c \in UpperSet |-> Ch(LowerChars, CHOOSE i \in 1..Len(UpperChars) : Ch(UpperChars, i) = c)]
        @@ <<>>

LowerCh(c) == IF c \in UpperSet THEN LowerOf[c] ELSE c

\* the least element of a non-empty set of numbers
Min(S) == CHOOSE b \in S : \A c \in S : b <= c

\* the element of a singleton: The({F(t) : t \in {e}}) is F(e), e evaluated once
The(S) == CHOOSE x \in S : TRUE

\* s[i-1 : j] in lower case, by halves
RECURSIVE LowerBetween(_, _, _)
LowerBetween(s, i, j) ==
    IF i > j THEN ""
    ELSE IF i = j THEN LowerCh(Ch(s, i))
    ELSE LowerBetween(s, i, (i + j) \div 2) \o LowerBetween(s, ((i + j) \div 2) + 1, j)
Lower(s) == The({LowerBetween(t, 1, Len(t)) : t \in {s}})

\* the first position from i on (the last from j back) that holds no whitespace
RECURSIVE SkipWs(_, _)
SkipWs(s, i) == IF i <= Len(s) /\ IsSpace(Ch(s, i)) THEN SkipWs(s, i + 1) ELSE i
RECURSIVE SkipWsBack(_, _)
SkipWsBack(s, j) == IF j >= 1 /\ IsSpace(Ch(s, j)) THEN SkipWsBack(s, j - 1) ELSE j

LStrip(s) == The({SubSeq(t, SkipWs(t, 1), Len(t)) : t \in {s}})
RStrip(s) == The({SubSeq(t, 1, SkipWsBack(t, Len(t))) : t \in {s}})
Strip(s) == RStrip(LStrip(s))

StartsWith(s, p) == Len(s) >= Len(p) /\ SubSeq(s, 1, Len(p)) = p
EndsWith(s, p) == Len(s) >= Len(p) /\ SubSeq(s, Len(s) - Len(p) + 1, Len(s)) = p
\* p in s
Contains(s, p) ==
    \E t \in {s} : \E i \in 1..(Len(t) - Len(p) + 1) : SubSeq(t, i, i + Len(p) - 1) = p

\* the positions from i on where p occurs in s
Occurrences(s, p, i) == {j \in i..(Len(s) - Len(p) + 1) : SubSeq(s, j, j + Len(p) - 1) = p}

\* s.replace(old, new), old non-empty, leftmost occurrences first
RECURSIVE ReplaceFrom(_, _, _, _)
ReplaceFrom(s, old, new, i) ==
    The({IF found = {} THEN SubSeq(s, i, Len(s))
         ELSE The({SubSeq(s, i, j - 1) \o new \o ReplaceFrom(s, old, new, j + Len(old))
                     : j \in {Min(found)}})
            : found \in {Occurrences(s, old, i)}})
Replace(s, old, new) == The({ReplaceFrom(t, old, new, 1) : t \in {s}})

(***************************************************************************)
(* ast.literal_eval, for the literals the backend produces: integers,      *)
(* decimals, quoted strings, None/True/False, lists and dicts of those.    *)
(* A parse result is [ok, val, pos]: pos is the index after the literal.   *)
(***************************************************************************)
PFail == [ok |-> FALSE, val |-> NoneV, pos |-> 0]
POk(val, pos) == [ok |-> TRUE, val |-> val, pos |-> pos]
\* the value of a parse result, or x when the parse failed
OrElse(r, x) == IF r.ok THEN r.val ELSE x

RECURSIVE ScanDigits(_, _)
ScanDigits(s, i) == IF i <= Len(s) /\ IsDigit(Ch(s, i)) THEN ScanDigits(s, i + 1) ELSE i

DigitOf == [c \in DigitSet |-> (CHOOSE k \in 1..10 : Ch(DigitChars, k) = c) - 1] @@ <<>>
DigitVal(c) == DigitOf[c]

\* the number written by the digits s[i..j-1]
RECURSIVE DigitsVal(_, _, _)
DigitsVal(s, i, j) ==
    IF j <= i THEN 0 ELSE DigitsVal(s, i, j - 1) * 10 + DigitVal(Ch(s, j - 1))

\* thousandths written by the fraction digits s[i..j-1] (three digits kept)
FracVal(s, i, j) ==
    LET d(k) == IF i + k < j THEN DigitVal(Ch(s, i + k)) ELSE 0
    IN  d(0) * 100 + d(1) * 10 + d(2)

\* the number whose digits are s[a..b-1], b > a, with the sign sgn
NumberAt(s, a, b, sgn) ==
    IF b <= Len(s) /\ Ch(s, b) = "."
    THEN The({POk(FloatV(sgn * (DigitsVal(s, a, b) * 1000 + FracVal(s, b + 1, c))), c)
                : c \in {ScanDigits(s, b + 1)}})
    ELSE IF b - a > 1 /\ Ch(s, a) = "0" /\ DigitsVal(s, a, b) # 0
         THEN PFail     \* no leading zeros in a decimal integer literal
         ELSE POk(IntV(sgn * DigitsVal(s, a, b)), b)

\* the digits after an optional sign at i
DigitsAt(s, a, sgn) ==
    The({IF b = a THEN PFail ELSE NumberAt(s, a, b, sgn) : b \in {ScanDigits(s, a)}})

ParseNumber(s, i) ==
    IF Ch(s, i) = "-" THEN DigitsAt(s, i + 1, -1)
    ELSE IF Ch(s, i) = "+" THEN DigitsAt(s, i + 1, 1)
    ELSE DigitsAt(s, i, 1)

\* index of the first q at or after i, 0 when there is none
FindCh(s, q, i) ==
    The({IF found = {} THEN 0 ELSE Min(found) : found \in {Occurrences(s, q, i)}})

\* a quoted string without escapes, the quote being at i
ParseString(s, i) ==
    The({IF j = 0 \/ Contains(SubSeq(s, i + 1, j - 1), "\\") THEN PFail
         ELSE POk(StrV(SubSeq(s, i + 1, j - 1)), j + 1)
            : j \in {FindCh(s, Ch(s, i), i + 1)}})

ParseKeyword(s, i) ==
    LET rest == SubSeq(s, i, Len(s))
        kw(w) == StartsWith(rest, w)
                    /\ ~(i + Len(w) <= Len(s) /\ IsWordCh(Ch(s, i + Len(w))))
    IN  CASE kw("None") -> POk(NoneV, i + 4)
          [] kw("True") -> POk(BoolV(TRUE), i + 4)
          [] kw("False") -> POk(BoolV(FALSE), i + 5)
          [] OTHER -> PFail

RECURSIVE ParseValue(_, _)
RECURSIVE ParseItems(_, _, _)
RECURSIVE ParsePairs(_, _, _)

\* the list after its element r, b being the first position after r that holds
\* no whitespace
AfterItem(s, r, b, acc) ==
    IF ~r.ok \/ b > Len(s) THEN PFail
    ELSE IF Ch(s, b) = "," THEN ParseItems(s, b + 1, Append(acc, r.val))
    ELSE IF Ch(s, b) = "]" THEN POk(ListV(Append(acc, r.val)), b + 1)
    ELSE PFail

\* the elements of a list from position i on, up to the closing bracket
ParseItems(s, i, acc) ==
    The({IF a > Len(s) THEN PFail
         ELSE IF Ch(s, a) = "]" THEN POk(ListV(acc), a + 1)
         ELSE The({AfterItem(s, r, SkipWs(s, r.pos), acc) : r \in {ParseValue(s, a)}})
            : a \in {SkipWs(s, i)}})

\* the dict after the pair k: r, b as in AfterItem
AfterPair(s, k, r, b, acc) ==
    IF ~r.ok \/ b > Len(s) THEN PFail
    ELSE IF Ch(s, b) = "," THEN ParsePairs(s, b + 1, Append(acc, <<k.val, r.val>>))
    ELSE IF Ch(s, b) = "}" THEN POk(DictV(Append(acc, <<k.val, r.val>>)), b + 1)
    ELSE PFail

\* the dict after its key k, c being the first position after k that holds no
\* whitespace
AfterKey(s, k, c, acc) ==
    IF ~k.ok \/ c > Len(s) \/ Ch(s, c) # ":" THEN PFail
    ELSE The({AfterPair(s, k, r, SkipWs(s, r.pos), acc) : r \in {ParseValue(s, c + 1)}})

\* the key: value pairs of a dict from position i on, up to the closing brace
ParsePairs(s, i, acc) ==
    The({IF a > Len(s) THEN PFail
         ELSE IF Ch(s, a) = "}" THEN POk(DictV(acc), a + 1)
         ELSE The({AfterKey(s, k, SkipWs(s, k.pos), acc) : k \in {ParseValue(s, a)}})
            : a \in {SkipWs(s, i)}})

\* the literal that starts at a, a position that holds no whitespace
ValueAt(s, a) ==
    IF a > Len(s) THEN PFail
    ELSE LET c == Ch(s, a)
         IN  CASE c = "[" -> ParseItems(s, a + 1, <<>>)
               [] c = "{" -> ParsePairs(s, a + 1, <<>>)
               [] c \in {"'", "\""} -> ParseString(s, a)
               [] IsDigit(c) \/ c \in {"-", "+"} -> ParseNumber(s, a)
               [] OTHER -> ParseKeyword(s, a)

ParseValue(s, i) == The({ValueAt(s, a) : a \in {SkipWs(s, i)}})

\* the parse of the whole of s
WholeLiteral(s, r) == IF r.ok /\ SkipWs(s, r.pos) = Len(s) + 1 THEN r ELSE PFail

\* ast.literal_eval(s): [ok |-> FALSE] stands for the exception it raises
literal_eval(s) ==
    The({The({WholeLiteral(t, r) : r \in {ParseValue(t, 1)}}) : t \in {s}})

(***************************************************************************)
(* str() and repr() of a value                                             *)
(***************************************************************************)
RECURSIVE NatStr(_)
NatStr(n) == IF n < 10 THEN Ch(DigitChars, n + 1)
             ELSE NatStr(n \div 10) \o Ch(DigitChars, (n % 10) + 1)

IntStr(n) == IF n < 0 THEN "-" \o NatStr(-n) ELSE NatStr(n)

\* repr of the float with m thousandths: 42000 is "42.0", 12500 is "12.5"
FloatStr(m) ==
    LET a == IF m < 0 THEN -m ELSE m
        f == a % 1000
        frac == IF f % 100 = 0 THEN NatStr(f \div 100)
                ELSE IF f % 10 = 0 THEN NatStr(f \div 100) \o NatStr((f \div 10) % 10)
                ELSE NatStr(f \div 100) \o NatStr((f \div 10) % 10) \o NatStr(f % 10)
    IN  (IF m < 0 THEN "-" ELSE "") \o NatStr(a \div 1000) \o "." \o frac

RECURSIVE PyRepr(_)
RECURSIVE JoinRepr(_)
RECURSIVE JoinPairs(_)

JoinRepr(xs) ==
    IF xs = <<>> THEN ""
    ELSE PyRepr(Head(xs)) \o (IF Len(xs) > 1 THEN ", " ELSE "") \o JoinRepr(Tail(xs))

JoinPairs(kvs) ==
    IF kvs = <<>> THEN ""
    ELSE PyRepr(Head(kvs)[1]) \o ": " \o PyRepr(Head(kvs)[2])
            \o (IF Len(kvs) > 1 THEN ", " ELSE "") \o JoinPairs(Tail(kvs))

PyRepr(x) ==
    CASE x.t = "none" -> "None"
      [] x.t = "bool" -> IF x.v THEN "True" ELSE "False"
      [] x.t = "int" -> IntStr(x.v)
      [] x.t = "float" -> FloatStr(x.v)
      [] x.t = "str" -> IF Contains(x.v, "'") /\ ~Contains(x.v, "\"")
                        THEN "\"" \o x.v \o "\"" ELSE "'" \o x.v \o "'"
      [] x.t = "list" -> "[" \o JoinRepr(x.v) \o "]"
      [] x.t = "dict" -> "{" \o JoinPairs(x.v) \o "}"

\* str(x)
PyStr(x) == IF x.t = "str" THEN x.v ELSE PyRepr(x)

(***************************************************************************)
(* run_agent_hybrid.py: the output-contract functions                      *)
(***************************************************************************)
\* the type the stripped hint h names
HintType(h) ==
    IF h = "int" THEN "int"
    ELSE IF h = "float" THEN "float"
    ELSE IF StartsWith(h, "{") /\ EndsWith(h, "}") THEN "dict"
    ELSE IF StartsWith(h, "list") THEN "list"
    ELSE "str"

\* parse_format_hint with the rule for lists tested before the one for objects
\* and on the word anywhere in the hint
parse_format_hint_list_anywhere(format_hint) ==
    The({IF h = "int" THEN "int"
         ELSE IF h = "float" THEN "float"
         ELSE IF Contains(h, "list") THEN "list"
         ELSE IF StartsWith(h, "{") /\ EndsWith(h, "}") THEN "dict"
         ELSE "str" : h \in {Strip(format_hint)}})

parse_format_hint(format_hint) == The({HintType(h) : h \in {Strip(format_hint)}})

\* the defaults table of normalize_answer
defaults(expected_type) ==
    CASE expected_type = "int" -> IntV(0)
      [] expected_type = "float" -> FloatV(0)
      [] expected_type = "dict" -> DictV(<<>>)
      [] expected_type = "list" -> ListV(<<>>)
      [] expected_type = "str" -> StrV("")

\* the float written by s from a on: digits with an optional fraction, s[a..b-1]
\* being the digits before the point and c the end of the digits after it
FloatDigits(s, a, b, c) ==
    LET dot == b <= Len(s) /\ Ch(s, b) = "."
        nDigits == (b - a) + (IF dot THEN c - (b + 1) ELSE 0)
        mag == DigitsVal(s, a, b) * 1000 + (IF dot THEN FracVal(s, b + 1, c) ELSE 0)
    IN  IF nDigits > 0 /\ (IF dot THEN c ELSE b) = Len(s) + 1
        THEN [ok |-> TRUE, v |-> IF a = 2 /\ Ch(s, 1) = "-" THEN -mag ELSE mag]
        ELSE [ok |-> FALSE, v |-> 0]

FloatFrom(s, a) ==
    The({The({FloatDigits(s, a, b, c) : c \in {ScanDigits(s, b + 1)}})
            : b \in {ScanDigits(s, a)}})

\* float(s) of a string: optional sign, digits with an optional fraction
PyFloat(s0) ==
    The({FloatFrom(s, IF s # "" /\ Ch(s, 1) \in {"-", "+"} THEN 2 ELSE 1)
            : s \in {Strip(s0)}})

\* int(x) of a float of m thousandths: truncation toward zero
TruncInt(m) == IF m < 0 THEN -((-m) \div 1000) ELSE m \div 1000

\* round(x, 2) of a float of m thousandths (a tie goes to the even hundredth)
Round2(m) ==
    LET a == IF m < 0 THEN -m ELSE m
        q == a \div 10
        r == a % 10
        up == r > 5 \/ (r = 5 /\ q % 2 = 1)
        h == (IF up THEN q + 1 ELSE q) * 10
    IN  IF m < 0 THEN -h ELSE h

IsNumber(x) == x.t \in {"int", "float", "bool"}
\* float(x) of an int, float or bool, in thousandths
AsFloat(x) == CASE x.t = "int" -> x.v * 1000
                [] x.t = "float" -> x.v
                [] x.t = "bool" -> IF x.v THEN 1000 ELSE 0

RejectionStrings == {"na", "n/a", "no answer", "none"}

NPair(val, is_valid) == [returns |-> "pair", val |-> val, is_valid |-> is_valid]
\* the function ends without a return statement: the caller receives None
NNone == [returns |-> "none", val |-> NoneV, is_valid |-> FALSE]

\* try: final_answer = ast.literal_eval(final_answer) / except: pass
Evaluated(final_answer) ==
    OrElse(IF IsStr(final_answer) THEN literal_eval(final_answer.v) ELSE PFail, final_answer)

\* try: return int(float(final_answer)), True / except: return defaults["int"], False
IntOfFloat(f) == IF f.ok THEN NPair(IntV(TruncInt(f.v)), TRUE) ELSE NPair(defaults("int"), FALSE)
\* the same with round(float(final_answer), 2)
RoundOfFloat(f) ==
    IF f.ok THEN NPair(FloatV(Round2(f.v)), TRUE) ELSE NPair(defaults("float"), FALSE)

\* the second literal_eval of the dict and list branches: parsed, when it has type t
ParsedAs(r, t) == IF r.ok /\ r.val.t = t THEN NPair(r.val, TRUE) ELSE NPair(defaults(t), FALSE)

\* the branches on expected_type, final_answer being the evaluated answer
Coerce(expected_type, final_answer) ==
    CASE expected_type = "int" ->
            IF IsNumber(final_answer) THEN NPair(IntV(TruncInt(AsFloat(final_answer))), TRUE)
            ELSE IF IsStr(final_answer) THEN IntOfFloat(PyFloat(final_answer.v))
            ELSE NNone
      [] expected_type = "float" ->
            IF IsNumber(final_answer) THEN NPair(FloatV(Round2(AsFloat(final_answer))), TRUE)
            ELSE IF IsStr(final_answer) THEN RoundOfFloat(PyFloat(final_answer.v))
            ELSE NNone
      [] expected_type \in {"dict", "list"} ->
            IF final_answer.t = expected_type THEN NPair(final_answer, TRUE)
            ELSE IF IsStr(final_answer)
                 THEN ParsedAs(literal_eval(final_answer.v), expected_type)
                 ELSE NPair(defaults(expected_type), FALSE)
      [] OTHER -> NPair(StrV(PyStr(final_answer)), TRUE)

\* the rejection test without the "not applicable" clause
IsRejectionExactOnly(lowered) == lowered \in RejectionStrings

\* final_answer.lower() names a rejection
IsRejection(lowered) == Contains(lowered, "not applicable") \/ lowered \in RejectionStrings

\* normalize_answer once expected_type is known
NormalizeTo(expected_type, final_answer) ==
    IF IsNone(final_answer) THEN NPair(defaults(expected_type), FALSE)
    ELSE IF IsStr(final_answer) /\ IsRejection(Lower(final_answer.v))
         THEN NPair(defaults(expected_type), FALSE)
         ELSE Coerce(expected_type, Evaluated(final_answer))

normalize_answer(final_answer, format_hint) ==
    NormalizeTo(parse_format_hint(format_hint), final_answer)

\* re.match(r'^[A-Za-z_][A-Za-z0-9_]*$', s): $ also matches before a final newline
IsIdentifier(s) ==
    LET body == IF EndsWith(s, "\n") THEN SubSeq(s, 1, Len(s) - 1) ELSE s
    IN  /\ body # ""
        /\ IsAlpha(Ch(body, 1)) \/ Ch(body, 1) = "_"
        /\ \A i \in 1..Len(body) : IsWordCh(Ch(body, i))

\* is_valid_citation without the rule for document chunks
is_valid_citation_identifier_only(c_str) == IsIdentifier(c_str) /\ Len(c_str) < 50

is_valid_citation(c_str) ==
    IF Contains(c_str, "::chunk") THEN TRUE
    ELSE IsIdentifier(c_str) /\ Len(c_str) < 50

\* The printable ASCII characters in code-point order, from the space (32) on.
\* A TLA+ string cannot hold the backquote (96): Backquote stands for it and
\* takes its place in the order.
Backquote == "@"
AsciiChars ==
    " !\"#$%&'()*+,-./0123456789:;<=>?" \o "\t" \o "ABCDEFGHIJKLMNOPQRSTUVWXYZ[\\]^_"
        \o Backquote \o "abcdefghijklmnopqrstuvwxyz{|}~"

\* ord(c); the control characters come before the space
OrdOf == [i \in 1..Len(AsciiChars) |-> Ch(AsciiChars, i)] @@ <<>>
Ord(c) == IF c = "\t" THEN 9 ELSE IF c = "\n" THEN 10 ELSE IF c = "\r" THEN 13
          ELSE 31 + (CHOOSE i \in 1..Len(AsciiChars) : OrdOf[i] = c)

\* a < b for Python strings that agree before position i
RECURSIVE StrLessFrom(_, _, _)
StrLessFrom(a, b, i) ==
    IF i > Len(b) THEN FALSE
    ELSE IF i > Len(a) THEN TRUE
    ELSE IF Ch(a, i) = Ch(b, i) THEN StrLessFrom(a, b, i + 1)
    ELSE Ord(Ch(a, i)) < Ord(Ch(b, i))

StrLess(a, b) == StrLessFrom(a, b, 1)

\* sorted(list(S)) of a set of strings
RECURSIVE SortedList(_)
SortedList(S) ==
    IF S = {} THEN <<>>
    ELSE The({<<m>> \o SortedList(S \ {m})
                : m \in {CHOOSE x \in S : \A y \in S : x = y \/ StrLess(x, y)}})

Range(f) == {f[i] : i \in DOMAIN f}

\* end of the run of characters satisfying \w that starts at i
RECURSIVE ScanWord(_, _)
ScanWord(s, i) == IF i <= Len(s) /\ IsWordCh(Ch(s, i)) THEN ScanWord(s, i + 1) ELSE i

IsQuoteCh(c) == c \in {Backquote, "\""}

\* the result of trying table_pattern at a position: [ok, name, pos], pos being
\* the position after the match
NoMatch == [ok |-> FALSE, name |-> "", pos |-> 0]

\* (\w+) [`"]? with the name s[b..c-1]
NameMatch(s, b, c) ==
    IF c > b
    THEN [ok |-> TRUE, name |-> SubSeq(s, b, c - 1),
          pos |-> IF c <= Len(s) /\ IsQuoteCh(Ch(s, c)) THEN c + 1 ELSE c]
    ELSE NoMatch

NameFrom(s, b) == The({NameMatch(s, b, c) : c \in {ScanWord(s, b)}})

\* The rest of table_pattern after a keyword that ends before position i:
\* \s+ [`"]? (\w+) [`"]?   An opening quote is taken when a name follows it.
MatchTableName(s, i) ==
    The({IF a = i THEN NoMatch
         ELSE IF a < Len(s) /\ IsQuoteCh(Ch(s, a)) /\ IsWordCh(Ch(s, a + 1))
              THEN NameFrom(s, a + 1)
              ELSE NameFrom(s, a)
            : a \in {SkipWs(s, i)}})

\* the position after the keyword of table_pattern that starts at i (IGNORECASE),
\* 0 when there is none
AfterKeyword(s, i) ==
    LET at(k) == Lower(Slice(s, i, i + Len(k) - 1)) = k
    IN  CASE at("from") -> i + 4
          [] at("join") -> i + 4
          [] at("into") -> i + 4
          [] at("update") -> i + 6
          [] at("delete") ->
                The({IF f > i + 6 /\ Lower(Slice(s, f, f + 3)) = "from" THEN f + 4 ELSE 0
                        : f \in {SkipWs(s, i + 6)}})
          [] OTHER -> 0

\* table_pattern tried at position i: \b, a keyword, the name
MatchTableAt(s, i) ==
    IF i = 1 \/ ~IsWordCh(Ch(s, i - 1))
    THEN The({IF k > 0 THEN MatchTableName(s, k) ELSE NoMatch : k \in {AfterKeyword(s, i)}})
    ELSE NoMatch

\* set(re.findall(table_pattern, sql_query, re.IGNORECASE)), scanning from i
RECURSIVE FindTables(_, _)
FindTables(s, i) ==
    The({IF starts = {} THEN {}
         ELSE The({{m.name} \cup FindTables(s, m.pos) : m \in {MatchTableAt(s, Min(starts))}})
            : starts \in {{j \in i..Len(s) : MatchTableAt(s, j).ok}}})

sanitize_citations(citations, sql_query) ==
    LET tables == The({IF q # "" THEN FindTables(q, 1) ELSE {} : q \in {sql_query}})
        given == CASE citations.t = "list" -> {c \in Range(citations.v) : IsStr(c)}
                   [] citations.t = "str" -> {citations}
                   [] OTHER -> {}
        docs == {c_str \in {Strip(c.v) : c \in given} : is_valid_citation(c_str)}
    IN  The({SortedList(result) : result \in {tables \cup docs}})

max_chars == 250

IsSentenceEnd(c) == c \in {".", "!", "?"}

\* the positions of s from a on where the separator (?<=[.!?])\s+ can start
SentenceBreaks(s, a) ==
    {i \in a..Len(s) : i >= 2 /\ IsSpace(Ch(s, i)) /\ IsSentenceEnd(Ch(s, i - 1))}

\* re.split(r'(?<=[.!?])\s+', s): the pieces of s from position a on
RECURSIVE SplitSentences(_, _)
SplitSentences(s, a) ==
    The({IF breaks = {} THEN <<SubSeq(s, a, Len(s))>>
         ELSE The({<<SubSeq(s, a, i - 1)>> \o SplitSentences(s, SkipWs(s, i))
                     : i \in {Min(breaks)}})
            : breaks \in {SentenceBreaks(s, a)}})

\* the for loop of truncate_explanation over the remaining sentences
RECURSIVE TakeSentences(_, _)
TakeSentences(result, sentences) ==
    IF sentences = <<>> THEN result
    ELSE IF Len(result) + Len(Head(sentences)) + 1 <= max_chars
         THEN TakeSentences(result \o Head(sentences) \o " ", Tail(sentences))
         ELSE result

\* truncate_explanation without the cut at max_chars
truncate_explanation_uncut(explanation) == Strip(explanation)

\* explanation is a str here; "" stands for every falsy explanation
truncate_explanation(explanation) ==
    IF explanation = "" THEN ""
    ELSE The({The({Strip(TakeSentences("", sentences))
                     : sentences \in {SplitSentences(e, 1)}})
                : e \in {Strip(explanation)}})

(***************************************************************************)
(* Bounds and the values the collaborators may answer with                 *)
(***************************************************************************)
\* number of questions in the batch
NQuestions == 2

\* the largest number of calls counted
MaxCalls == 8

\* the format hints of the batch, question i taking the i-th (cyclically)
HintPool == <<"int", "list[str]", "float", "{category:str, quantity:int}", "str">>

Batch ==
    [i \in 1..NQuestions |->
        [id |-> "q" \o NatStr(i),
         question |-> "Q" \o NatStr(i),
         format_hint |-> HintPool[((i - 1) % Len(HintPool)) + 1]]]

\* labels the classification backend may return
Labels == {"sql", " RAG\n", "Hybrid"}

\* results of retriever.search
SearchResults ==
    {<<[id |-> "kpi_definitions::chunk0", text |-> "AOV = revenue / orders.", score |-> 1]>>}

\* texts the query-generation backend may return (Backquote for the fence)
FenceSql == Backquote \o Backquote \o Backquote \o "sql"
Fence == Backquote \o Backquote \o Backquote
GeneratedQueries ==
    {FenceSql \o "\nSELECT COUNT(*) FROM Orders\n" \o Fence}

ZeroRows == StrV("Query executed successfully but returned 0 rows.")
SomeRows == ListV(<<DictV(<< <<StrV("COUNT(*)"), IntV(42)>> >>)>>)
SqlFailure == StrV("SQL Error: no such table: Orders")

\* a sentence of 98 characters and its space; an explanation of three of them
Sentence100 ==
    "The answer was computed from the query result rows and the retrieved policy text as the hint asks. "
LongExplanation == Sentence100 \o Sentence100 \o Sentence100

\* predictions the synthesis backend may return
SynthPredictions ==
    { [final_answer |-> StrV("42"), explanation |-> StrV("Counted the orders."),
       citations |-> StrV("['Orders', 'Order Details']")],
      [final_answer |-> StrV("['Chai', 'Tofu']"), explanation |-> StrV(LongExplanation),
       citations |-> ListV(<<StrV("kpi_definitions::chunk0"), StrV("see the docs")>>)] }

(***************************************************************************)
(* State                                                                   *)
(***************************************************************************)
VARIABLES
    questions,      \* main: the questions loaded from the batch file
    idx,            \* main: position of the for loop, from 1
    pc,             \* main: where the driver stands
    final_answer,   \* main's locals of the question being processed
    sql_query,
    citations,
    explanation,
    sql_error,
    is_valid,
    repair_count,
    results,        \* main: the output records, in the order appended
    state,          \* AgentState of the running workflow invocation
    stepNodes,      \* the nodes scheduled in the current superstep of the graph
    ran,            \* those of stepNodes that have run
    writes,         \* the state updates they returned, applied when all have run
    nextNodes,      \* the nodes their edges schedule for the next superstep
    probe,          \* observation: the last call of a function on its own,
                    \*   [fn, arg, out]
    calls           \* observation: how often each node ran
                    \*   gen, exec: for the current question, until its record
                    \*     is appended; raised: how often a collaborator raised;
                    \*     invocations: how often app.invoke was called
                    \*   wfGen, wfExec, wfRepair, wfSynth, wfRetr: in the current
                    \*     invocation, until main has handled its outcome;
                    \*     wfErr: how often the executor returned an error

driverVars == <<questions, idx, pc, final_answer, sql_query, citations, explanation,
                sql_error, is_valid, repair_count, results>>
graphVars == <<state, stepNodes, ran, writes, nextNodes>>
vars == <<driverVars, graphVars, calls, probe>>

max_repairs == 2

db_schema == "Table: Orders\nColumns: OrderID, CustomerID\n\n"

\* no invocation is running
NoState == [question |-> "", format_hint |-> "", repair_count |-> 0, sql_error |-> NoneV,
            classification |-> "", schema |-> "", doc_context |-> <<>>,
            constraints |-> "", sql_query |-> "", sql_result |-> NoneV,
            final_answer |-> NoneV, explanation |-> StrV(""), citations |-> ListV(<<>>)]

\* no function has been called on its own
NoProbe == [fn |-> "", arg |-> <<>>, out |-> <<>>]

NoCalls == [gen |-> 0, exec |-> 0, raised |-> 0, wfGen |-> 0, wfExec |-> 0, wfErr |-> 0,
            wfRepair |-> 0, wfSynth |-> 0, wfRetr |-> 0, invocations |-> 0]

\* the counts of an invocation are dropped when it is over
EndInvocation(c) == [c EXCEPT !.wfGen = 0, !.wfExec = 0, !.wfErr = 0, !.wfRepair = 0,
                              !.wfSynth = 0, !.wfRetr = 0]

\* the counts stop at MaxCalls
Bump(c, fields) ==
    [k \in DOMAIN c |-> IF k \in fields /\ c[k] < MaxCalls THEN c[k] + 1 ELSE c[k]]

(***************************************************************************)
(* agent/graph_hybrid.py: the nodes, as the state update each returns      *)
(***************************************************************************)
router_node(st, label) ==
    [classification |-> Strip(Lower(label)), schema |-> db_schema]

RECURSIVE JoinContext(_)
JoinContext(rs) ==
    IF rs = <<>> THEN ""
    ELSE "[" \o Head(rs).id \o "] " \o Head(rs).text
            \o (IF Len(rs) > 1 THEN "\n" ELSE "") \o JoinContext(Tail(rs))

\* retrieval_node returning the chunks without the context string
retrieval_node_no_constraints(st, found) == [doc_context |-> found, constraints |-> ""]

retrieval_node(st, found) ==
    [doc_context |-> found, constraints |-> JoinContext(found)]

\* the arguments sql_gen_node passes to the query-generation backend
sql_gen_inputs(st) ==
    [question |-> st.question, schema |-> st.schema, constraints |-> st.constraints]

sql_gen_node(st, generated) ==
    [sql_query |-> Strip(Replace(Replace(generated, FenceSql, ""), Fence, ""))]

\* execute_sql taking an empty statement as a query without rows
execute_sql_empty_succeeds(query) ==
    IF query = "" THEN {ZeroRows} ELSE {SomeRows, ZeroRows, SqlFailure}

\* what execute_sql may return for a query: pandas fails on an empty statement
execute_sql(query) ==
    IF query = "" THEN {StrV("SQL Error: 'NoneType' object is not iterable")}
    ELSE {SomeRows, ZeroRows, SqlFailure}

\* the error test without the prefix: every string result is an error
IsSqlErrorAnyString(result) == IsStr(result)

\* isinstance(result, str) and result.startswith("SQL Error")
IsSqlError(result) == IsStr(result) /\ StartsWith(result.v, "SQL Error")

sql_exec_node(st, result) ==
    IF IsSqlError(result)
    THEN [sql_result |-> NoneV, sql_error |-> result]
    ELSE [sql_result |-> result, sql_error |-> NoneV]

\* the arguments synthesizer_node passes to the synthesis backend;
\* sql_result is str(state.get("sql_result", "No SQL executed"))
synthesizer_inputs(st) ==
    [question |-> st.question,
     format_hint |-> st.format_hint,
     sql_query |-> st.sql_query,
     sql_result |-> IF "sql_result" \in DOMAIN st THEN PyStr(st.sql_result)
                    ELSE "No SQL executed",
     doc_context |-> st.constraints]

\* synthesizer_node taking a citations string as one citation, without parsing it
synthesizer_node_unparsed(st, pred) ==
    [final_answer |-> pred.final_answer,
     explanation |-> pred.explanation,
     citations |-> IF IsStr(pred.citations) THEN ListV(<<pred.citations>>)
                   ELSE pred.citations]

synthesizer_node(st, pred) ==
    [final_answer |-> pred.final_answer,
     explanation |-> pred.explanation,
     citations |-> IF IsStr(pred.citations)
                   THEN OrElse(literal_eval(pred.citations.v), ListV(<<pred.citations>>))
                   ELSE pred.citations]

\* repair_node without the increment
repair_node_no_increment(st) == [repair_count |-> st.repair_count]

\* repair_node appending the error to the question, as its comment announces
repair_node_appending_error(st) ==
    [repair_count |-> st.repair_count + 1,
     question |-> st.question \o " Error: "
                    \o (IF IsStr(st.sql_error) THEN st.sql_error.v ELSE "None")]

repair_node(st) == [repair_count |-> st.repair_count + 1]

(***************************************************************************)
(* agent/graph_hybrid.py: the edges                                        *)
(***************************************************************************)
\* route_decision testing "sql" before "hybrid"
route_decision_sql_first(st) ==
    LET cls == st.classification
    IN  IF Contains(cls, "sql") THEN "sql"
        ELSE IF Contains(cls, "hybrid") THEN "hybrid"
        ELSE "rag"

route_decision(st) ==
    LET cls == st.classification
    IN  IF Contains(cls, "sql") \/ Contains(cls, "hybrid")
        THEN IF Contains(cls, "hybrid") THEN "hybrid" ELSE "sql"
        ELSE "rag"

\* sql_check with the limit off by one: a third repair is allowed
sql_check_third_repair(st) ==
    IF Truthy(st.sql_error) /\ st.repair_count < 3 THEN "retry" ELSE "finalize"

sql_check(st) ==
    IF Truthy(st.sql_error) /\ st.repair_count < 2 THEN "retry" ELSE "finalize"

post_retrieval_route(st) ==
    IF Contains(st.classification, "hybrid") THEN "sql_gen" ELSE "synthesizer"

\* Successors with the router's "sql" branch mapped to the retriever
SuccessorsSqlViaRetriever(node, st) ==
    CASE node = "router" -> {"retriever"}
      [] node = "retriever" -> {"sql_gen"} \cup {post_retrieval_route(st)}
      [] node = "sql_gen" -> {"sql_exec"}
      [] node = "sql_exec" ->
            {IF sql_check(st) = "retry" THEN "repair" ELSE "synthesizer"}
      [] node = "repair" -> {"sql_gen"}
      [] node = "synthesizer" -> {}

\* The nodes scheduled after `node` has run, st being the state with the
\* node's own update.  Every edge and every conditional edge added to a node
\* is followed; the edge to END schedules nothing.
Successors(node, st) ==
    CASE node = "router" ->
            {IF route_decision(st) = "sql" THEN "sql_gen" ELSE "retriever"}
      [] node = "retriever" -> {"sql_gen"} \cup {post_retrieval_route(st)}
      [] node = "sql_gen" -> {"sql_exec"}
      [] node = "sql_exec" ->
            {IF sql_check(st) = "retry" THEN "repair" ELSE "synthesizer"}
      [] node = "repair" -> {"sql_gen"}
      [] node = "synthesizer" -> {}

\* st with the keys of the update upd replaced
Apply(st, upd) == [k \in DOMAIN st |-> IF k \in DOMAIN upd THEN upd[k] ELSE st[k]]

(***************************************************************************)
(* app.invoke: the compiled graph runs in supersteps.  The nodes of one    *)
(* superstep read the same state; their updates are applied together when  *)
(* all of them have run.                                                   *)
(***************************************************************************)
\* `node` of the current superstep is due
Due(node) == pc = "invoke" /\ node \in stepNodes \ ran

\* `node` returned the update upd
NodeReturns(node, upd) ==
    LET succ == Successors(node, Apply(state, upd))
        allWrites == upd @@ writes
        scheduled == nextNodes \cup succ
    IN  IF ran \cup {node} = stepNodes
        THEN /\ state' = Apply(state, allWrites)
             /\ stepNodes' = scheduled
             /\ ran' = {}
             /\ writes' = <<>>
             /\ nextNodes' = {}
             /\ pc' = IF scheduled = {} THEN "post" ELSE "invoke"
        ELSE /\ ran' = ran \cup {node}
             /\ writes' = allWrites
             /\ nextNodes' = scheduled
             /\ UNCHANGED <<state, stepNodes, pc>>

\* a collaborator raised: the exception leaves app.invoke
NodeRaises ==
    /\ pc' = "except"
    /\ state' = NoState
    /\ stepNodes' = {}
    /\ ran' = {}
    /\ writes' = <<>>
    /\ nextNodes' = {}

driverLocals == <<questions, idx, final_answer, sql_query, citations, explanation,
                  sql_error, is_valid, repair_count, results>>

Router ==
    /\ Due("router")
    /\ \/ /\ \E label \in Labels :
                \E upd \in {router_node(state, label)} : NodeReturns("router", upd)
          /\ UNCHANGED calls
       \/ /\ NodeRaises
          /\ calls' = Bump(calls, {"raised"})
    /\ UNCHANGED <<driverLocals, probe>>

Retriever ==
    /\ Due("retriever")
    /\ \/ /\ \E found \in SearchResults :
                \E upd \in {retrieval_node(state, found)} : NodeReturns("retriever", upd)
          /\ calls' = Bump(calls, {"wfRetr"})
       \/ /\ NodeRaises
          /\ calls' = Bump(calls, {"wfRetr", "raised"})
    /\ UNCHANGED <<driverLocals, probe>>

SqlGen ==
    /\ Due("sql_gen")
    /\ \/ /\ \E generated \in GeneratedQueries :
                \E upd \in {sql_gen_node(state, generated)} : NodeReturns("sql_gen", upd)
          /\ calls' = Bump(calls, {"gen", "wfGen"})
       \/ /\ NodeRaises
          /\ calls' = Bump(calls, {"gen", "wfGen", "raised"})
    /\ UNCHANGED <<driverLocals, probe>>

\* execute_sql catches every exception of the database: the node never raises
SqlExec ==
    /\ Due("sql_exec")
    /\ \E result \in execute_sql(state.sql_query) :
            /\ \E upd \in {sql_exec_node(state, result)} : NodeReturns("sql_exec", upd)
            /\ calls' = Bump(calls, IF IsSqlError(result) THEN {"exec", "wfExec", "wfErr"}
                                    ELSE {"exec", "wfExec"})
    /\ UNCHANGED <<driverLocals, probe>>

Repair ==
    /\ Due("repair")
    /\ \E upd \in {repair_node(state)} : NodeReturns("repair", upd)
    /\ calls' = Bump(calls, {"wfRepair"})
    /\ UNCHANGED <<driverLocals, probe>>

Synthesizer ==
    /\ Due("synthesizer")
    /\ \/ /\ \E pred \in SynthPredictions :
                \E upd \in {synthesizer_node(state, pred)} : NodeReturns("synthesizer", upd)
          /\ calls' = Bump(calls, {"wfSynth"})
       \/ /\ NodeRaises
          /\ calls' = Bump(calls, {"wfSynth", "raised"})
    /\ UNCHANGED <<driverLocals, probe>>

(***************************************************************************)
(* run_agent_hybrid.py: main                                               *)
(***************************************************************************)
graphIdle ==
    /\ state' = NoState
    /\ stepNodes' = {}
    /\ ran' = {}
    /\ writes' = <<>>
    /\ nextNodes' = {}

\* the initial_state main builds for an attempt
initial_state(q) ==
    [question |-> q.question, format_hint |-> q.format_hint,
     repair_count |-> repair_count, sql_error |-> sql_error,
     classification |-> "", schema |-> "", doc_context |-> <<>>,
     constraints |-> "", sql_query |-> sql_query, sql_result |-> NoneV,
     final_answer |-> NoneV, explanation |-> StrV(""), citations |-> ListV(<<>>)]

\* the confidence interpolated between the tiers when only one criterion holds
confidence_interpolated(has_sql_error, valid) ==
    IF ~has_sql_error /\ valid THEN FloatV(1000)
    ELSE IF ~has_sql_error THEN FloatV(750)
    ELSE IF valid THEN FloatV(250)
    ELSE FloatV(0)

\* the confidence tiers, as floats
confidence(has_sql_error, valid) ==
    IF ~has_sql_error /\ valid THEN FloatV(1000)
    ELSE IF ~has_sql_error \/ valid THEN FloatV(500)
    ELSE FloatV(0)

\* the decision retrying on an SQL error only, not on a format mismatch
AfterAttemptErrorOnly(valid, err, count) ==
    IF valid /\ IsNone(err) THEN "break"
    ELSE IF count < max_repairs /\ ~IsNone(err) THEN "retry"
    ELSE "break"

\* the decision without the break on success: every attempt is repeated
\* while repairs are left
AfterAttemptUntilExhausted(valid, err, count) ==
    IF count < max_repairs THEN "retry" ELSE "break"

\* the decision that ends an attempt whose post-processing went through
AfterAttempt(valid, err, count) ==
    IF valid /\ IsNone(err) THEN "break"
    ELSE IF count < max_repairs /\ (~IsNone(err) \/ ~valid) THEN "retry"
    ELSE "break"

\* the except clause retrying once more than max_repairs allows
AfterExceptionOneMore(count) == IF count <= max_repairs THEN "retry" ELSE "break"

\* the decision of the except clause
AfterException(count) == IF count < max_repairs THEN "retry" ELSE "break"

\* the for loop with the locals initialised once, before it: only the repair
\* counter is reset for a question
BeginQuestionKeepingLocals ==
    /\ pc = "for"
    /\ idx <= Len(questions)
    /\ repair_count' = 0
    /\ pc' = "while"
    /\ UNCHANGED <<questions, idx, results, graphVars, calls, probe,
                   final_answer, sql_query, citations, explanation, sql_error, is_valid>>

\* for idx, q in enumerate(questions, 1): the locals of a question are reset
BeginQuestion ==
    /\ pc = "for"
    /\ idx <= Len(questions)
    /\ final_answer' = NoneV
    /\ sql_query' = ""
    /\ citations' = <<>>
    /\ explanation' = ""
    /\ sql_error' = NoneV
    /\ is_valid' = FALSE
    /\ repair_count' = 0
    /\ pc' = "while"
    /\ UNCHANGED <<questions, idx, results, graphVars, calls, probe>>

\* while repair_count <= max_repairs: app.invoke(initial_state) starts
Invoke ==
    /\ pc = "while"
    /\ IF repair_count <= max_repairs
       THEN /\ state' = initial_state(questions[idx])
            /\ stepNodes' = {"router"}
            /\ pc' = "invoke"
            /\ calls' = Bump(calls, {"invocations"})
       ELSE /\ pc' = "score"
            /\ UNCHANGED <<state, stepNodes, calls>>
    /\ UNCHANGED <<driverLocals, ran, writes, nextNodes, probe>>

\* The lines of the try block from "Extract raw outputs" on, norm being what
\* normalize_answer returned and query the stripped sql_query of final_state.
\* An exception leaves the locals assigned so far.
AttemptOutcome(norm, query) ==
    /\ sql_query' = query
    /\ sql_error' = state.sql_error
    /\ IF norm.returns = "none"
       THEN \* unpacking None raises TypeError
            /\ pc' = "except"
            /\ UNCHANGED <<final_answer, is_valid, citations, explanation, repair_count>>
       ELSE /\ final_answer' = norm.val
            /\ is_valid' = norm.is_valid
            /\ citations' = sanitize_citations(state.citations, query)
            /\ IF Truthy(state.explanation) /\ ~IsStr(state.explanation)
               THEN \* only a str has strip()
                    /\ pc' = "except"
                    /\ UNCHANGED <<explanation, repair_count>>
               ELSE /\ explanation' = IF IsStr(state.explanation)
                                      THEN truncate_explanation(state.explanation.v)
                                      ELSE ""
                    /\ IF AfterAttempt(norm.is_valid, state.sql_error, repair_count) = "retry"
                       THEN repair_count' = repair_count + 1 /\ pc' = "while"
                       ELSE repair_count' = repair_count /\ pc' = "score"

\* app.invoke returned final_state
PostProcess ==
    /\ pc = "post"
    /\ \E norm \in {normalize_answer(state.final_answer, questions[idx].format_hint)},
          query \in {Strip(state.sql_query)} :
            AttemptOutcome(norm, query)
    /\ graphIdle
    /\ calls' = EndInvocation(calls)
    /\ UNCHANGED <<questions, idx, results, probe>>

\* except Exception as e
Except ==
    /\ pc = "except"
    /\ repair_count' = IF AfterException(repair_count) = "retry"
                       THEN repair_count + 1 ELSE repair_count
    /\ pc' = IF AfterException(repair_count) = "retry" THEN "while" ELSE "score"
    /\ calls' = EndInvocation(calls)
    /\ UNCHANGED <<questions, idx, final_answer, sql_query, citations, explanation,
                   sql_error, is_valid, results, graphVars, probe>>

\* the output record carrying the id of the first question of the batch
OutputRecordFirstId(q) ==
    [id |-> questions[1].id,
     final_answer |-> final_answer,
     sql |-> sql_query,
     confidence |-> confidence(~IsNone(sql_error), is_valid),
     explanation |-> explanation,
     citations |-> citations]

\* the output record of the question, as main builds it
OutputRecord(q) ==
    [id |-> q.id,
     final_answer |-> final_answer,
     sql |-> sql_query,
     confidence |-> confidence(~IsNone(sql_error), is_valid),
     explanation |-> explanation,
     citations |-> citations]

\* the confidence is determined and the record appended to results
Score ==
    /\ pc = "score"
    /\ results' = Append(results, OutputRecord(questions[idx]))
    /\ idx' = idx + 1
    /\ pc' = "for"
    /\ calls' = NoCalls
    /\ UNCHANGED <<questions, final_answer, sql_query, citations, explanation,
                   sql_error, is_valid, repair_count, graphVars, probe>>

\* the for loop is over: the results are written
WriteResults ==
    /\ pc = "for"
    /\ idx > Len(questions)
    /\ pc' = "done"
    /\ UNCHANGED <<driverLocals, graphVars, calls, probe>>

Init ==
    /\ questions = Batch
    /\ idx = 1
    /\ pc = "for"
    /\ final_answer = NoneV
    /\ sql_query = ""
    /\ citations = <<>>
    /\ explanation = ""
    /\ sql_error = NoneV
    /\ is_valid = FALSE
    /\ repair_count = 0
    /\ results = <<>>
    /\ state = NoState
    /\ stepNodes = {}
    /\ ran = {}
    /\ writes = <<>>
    /\ nextNodes = {}
    /\ calls = NoCalls
    /\ probe = NoProbe

Next ==
    \/ BeginQuestion
    \/ Invoke
    \/ Router
    \/ Retriever
    \/ SqlGen
    \/ SqlExec
    \/ Repair
    \/ Synthesizer
    \/ PostProcess
    \/ Except
    \/ Score
    \/ WriteResults

Spec == Init /\ [][Next]_vars

\* the program keeps running: a step that can be taken is taken
LiveSpec == Spec /\ WF_vars(Next)

(***************************************************************************)
(* The batch run with a backend that classifies every question as sql and  *)
(* a database on which every query fails                                   *)
(***************************************************************************)
RouterSql ==
    /\ Due("router")
    /\ \/ /\ \E upd \in {router_node(state, "sql")} : NodeReturns("router", upd)
          /\ UNCHANGED calls
       \/ /\ NodeRaises
          /\ calls' = Bump(calls, {"raised"})
    /\ UNCHANGED <<driverLocals, probe>>

SqlExecFails ==
    /\ Due("sql_exec")
    /\ \E result \in {r \in execute_sql(state.sql_query) : IsSqlError(r)} :
            /\ \E upd \in {sql_exec_node(state, result)} : NodeReturns("sql_exec", upd)
            /\ calls' = Bump(calls, {"exec", "wfExec", "wfErr"})
    /\ UNCHANGED <<driverLocals, probe>>

FailingExecutorNext ==
    \/ BeginQuestion
    \/ Invoke
    \/ RouterSql
    \/ SqlGen
    \/ SqlExecFails
    \/ Repair
    \/ Synthesizer
    \/ PostProcess
    \/ Except
    \/ Score
    \/ WriteResults

FailingExecutorSpec == Init /\ [][FailingExecutorNext]_vars

(***************************************************************************)
(* The functions of the output contract and the routing, each called on    *)
(* its own with an input drawn from a bounded set; probe keeps the call.   *)
(***************************************************************************)
\* labels the classification backend may return: the expected ones, empty,
\* malformed ones and labels with both words
RouteLabels ==
    Labels \cup {"", "SQL", "sql or hybrid", "Hybrid, then SQL", "unknown", "\n",
                 "NoSQL database", "  hybrid  "}

\* format hints of a question
FormatHints ==
    {"int", "float", "{category:str, quantity:int}", "list[str]", "str", "",
     " int", "float\n", "Int", "integer", "list", "{", "{}", "listing",
     " {a:int} ", "a list", "}{"}

\* the hints normalize_answer is called with, one of each type
NormalizeHints ==
    {"int", "float", "{category:str, quantity:int}", "list[str]", "str"}

\* raw answers of every shape
RawAnswers ==
    {NoneV, IntV(42), IntV(-7), FloatV(12346), FloatV(2500),
     StrV("42"), StrV("12.346"), StrV("1.50"), StrV("abc"), StrV(""),
     StrV("hello world"), StrV("'Chai'"),
     StrV("NA"), StrV("n/a"), StrV("No Answer"), StrV("None"), StrV("none"),
     StrV("It is Not Applicable here"), StrV(" na "),
     StrV("['Chai', 'Tofu']"), StrV("{'category': 'Beverages', 'quantity': 3}"),
     ListV(<<StrV("Chai"), StrV("Tofu")>>),
     DictV(<< <<StrV("category"), StrV("Beverages")>>, <<StrV("quantity"), IntV(3)>> >>)}

\* citations as the synthesizer node may leave them in the state
RawCitations ==
    {ListV(<<>>), NoneV, StrV("Products"),
     ListV(<<StrV("Orders"), StrV("see the docs"), StrV("kpi_definitions::chunk0"),
             StrV("Orders"), IntV(3)>>),
     ListV(<<StrV(" b_table "), StrV("a_table"), StrV("Order Details"),
             StrV("in product_policy::chunk2 (returns)")>>)}

\* query texts sql_gen_node may leave in the state (Backquote for the backquote)
QueryTexts ==
    {"",
     "SELECT COUNT(*) FROM Orders",
     "SELECT * FROM Orders o JOIN Products p ON o.ProductID = p.ProductID",
     "select ProductName from " \o Backquote \o "Products" \o Backquote,
     "SELECT * FROM \"Customers\" JOIN \"Order Details\" USING (OrderID)",
     "SELECT SUM(Quantity) FROM [Order Details] JOIN Orders USING (OrderID)",
     "INSERT INTO Categories VALUES (1)",
     "UPDATE Products SET UnitPrice = 1",
     "DELETE  FROM Orders WHERE OrderID = 1",
     "SELECT * FROM 1997_sales",
     "SELECT * FROM (SELECT 1)"}

\* the start of a sentence, 53 characters with its space, and an end of 38
SentenceStart == "For the whole of the one year that the question has, "
SentenceEnd == "the orders were counted as it asks to."

\* raw explanations: empty, short, three sentences of 98 characters, sentences
\* of 151 and 98 characters (250 with the space between them) before a third,
\* one sentence of 250 characters before a second, and one of more than 250
RawExplanations ==
    {"", "Counted the orders.", "  Counted the orders.\nThe answer is 42!  ",
     LongExplanation,
     SentenceStart \o Sentence100 \o Sentence100 \o Sentence100,
     SentenceStart \o SentenceStart \o SentenceStart \o SentenceStart \o SentenceEnd
        \o " It is 42.",
     SentenceStart \o SentenceStart \o SentenceStart \o SentenceStart \o SentenceStart
        \o SentenceEnd}

CallTruncateExplanation ==
    /\ \E raw \in RawExplanations :
            probe' = [fn |-> "truncate_explanation", arg |-> <<raw>>,
                      out |-> truncate_explanation(raw)]
    /\ UNCHANGED <<driverVars, graphVars, calls>>

\* texts of the query-generation backend: ones that are empty once the fences
\* and the whitespace are removed, and queries
GeneratedTexts ==
    {"", "  \n", Fence \o Fence, FenceSql \o "\n" \o Fence, FenceSql \o "\n \n" \o Fence \o "\n"}
        \cup GeneratedQueries \cup {"SELECT 1"}

\* sql_gen_node and sql_exec_node in a row from a state with repair_count
\* count, and the nodes the edges of sql_exec schedule
CallSqlGenAndExec ==
    /\ \E generated \in GeneratedTexts, count \in 0..max_repairs :
         \E st1 \in {Apply([NoState EXCEPT !.repair_count = count],
                            sql_gen_node(NoState, generated))} :
          \E result \in execute_sql(st1.sql_query) :
           \E st2 \in {Apply(st1, sql_exec_node(st1, result))} :
            probe' = [fn |-> "sql_exec_node", arg |-> <<generated, count>>,
                      out |-> [sql_query |-> st1.sql_query,
                               result |-> result,
                               sql_error |-> st2.sql_error,
                               next |-> Successors("sql_exec", st2)]]
    /\ UNCHANGED <<driverVars, graphVars, calls>>

\* lists of citations the synthesis backend may mean
CitationLists ==
    {ListV(<<>>),
     ListV(<<StrV("Orders"), StrV("Order Details")>>),
     ListV(<<StrV("kpi_definitions::chunk0")>>),
     ListV(<<StrV("Orders"), StrV("the customers' table"), StrV("marketing_calendar::chunk1")>>)}

\* citation strings that are no Python literal
UnparsableCitations ==
    {"Orders", "Orders, Products", "[Orders, Products]", "['Orders'", "see the docs"}

\* the citations of a prediction: a list, its serialization, or another string
PredictedCitations ==
    CitationLists \cup {StrV(PyRepr(l)) : l \in CitationLists}
        \cup {StrV(c) : c \in UnparsableCitations}

CallSynthesizerNode ==
    /\ \E c \in PredictedCitations :
            probe' = [fn |-> "synthesizer_node", arg |-> <<c>>,
                      out |-> synthesizer_node(NoState,
                                  [final_answer |-> StrV("42"),
                                   explanation |-> StrV("Counted the orders."),
                                   citations |-> c]).citations]
    /\ UNCHANGED <<driverVars, graphVars, calls>>

CallRouteDecision ==
    /\ \E label \in RouteLabels :
            probe' = [fn |-> "route_decision", arg |-> <<label>>,
                      out |-> route_decision(Apply(NoState, router_node(NoState, label)))]
    /\ UNCHANGED <<driverVars, graphVars, calls>>

CallParseFormatHint ==
    /\ \E hint \in FormatHints :
            probe' = [fn |-> "parse_format_hint", arg |-> <<hint>>,
                      out |-> parse_format_hint(hint)]
    /\ UNCHANGED <<driverVars, graphVars, calls>>

CallNormalizeAnswer ==
    /\ \E raw \in RawAnswers, hint \in NormalizeHints :
            probe' = [fn |-> "normalize_answer", arg |-> <<raw, hint>>,
                      out |-> normalize_answer(raw, hint)]
    /\ UNCHANGED <<driverVars, graphVars, calls>>

CallSanitizeCitations ==
    /\ \E raw \in RawCitations, query \in QueryTexts :
            probe' = [fn |-> "sanitize_citations", arg |-> <<raw, query>>,
                      out |-> sanitize_citations(raw, query)]
    /\ UNCHANGED <<driverVars, graphVars, calls>>

(***************************************************************************)
(* agent/rag/retrieval.py: LocalRetriever over a corpus of chunks          *)
(***************************************************************************)
\* the largest corpus and the largest top_k searched with
MaxChunks == 2
MaxTopK == 2

\* chunk texts; a corpus is a non-empty list of them, the same text possibly
\* at several positions (BM25Okapi cannot be built over an empty corpus)
CorpusTexts == {"AOV = revenue / orders.", "Returns within 30 days."}
Corpora == UNION {[1..n -> CorpusTexts] : n \in 1..MaxChunks}

\* bm25.get_scores: the score of a chunk for the query depends on its text,
\* in thousandths
ScoreTables == [CorpusTexts -> {0, 1500}]

\* load_docs: the chunk at position i (from 1) of the file has the id chunk{i-1}
chunk_ids(corpus) ==
    [i \in 1..Len(corpus) |-> "kpi_definitions::chunk" \o NatStr(i - 1)]

\* corpus.index(text): the first position holding the text
index(corpus, text) ==
    CHOOSE i \in 1..Len(corpus) :
        corpus[i] = text /\ \A j \in 1..(i - 1) : corpus[j] # text

\* bm25.get_top_n: the positions of the n best scores, best first; the order
\* among equal scores is the sort's
get_top_n(corpus, scoreOf, n) ==
    LET m == IF n < Len(corpus) THEN n ELSE Len(corpus)
    IN  {r \in [1..m -> 1..Len(corpus)] :
            /\ \A i, j \in 1..m : i < j =>
                    r[i] # r[j] /\ scoreOf[corpus[r[i]]] >= scoreOf[corpus[r[j]]]
            /\ \A q \in 1..Len(corpus) :
                    (\A i \in 1..m : r[i] # q) =>
                        \A i \in 1..m : scoreOf[corpus[q]] <= scoreOf[corpus[r[i]]]}

\* search, top_n being the positions get_top_n took the texts from
search(corpus, scoreOf, top_n) ==
    [k \in 1..Len(top_n) |->
        LET text == corpus[top_n[k]]
            at == index(corpus, text)
        IN  [id |-> chunk_ids(corpus)[at], text |-> text,
             score |-> scoreOf[corpus[at]]]]

CallSearch ==
    /\ \E corpus \in Corpora, scoreOf \in ScoreTables, top_k \in 1..MaxTopK :
         \E top_n \in get_top_n(corpus, scoreOf, top_k) :
            probe' = [fn |-> "search", arg |-> <<corpus, top_k>>,
                      out |-> [results |-> search(corpus, scoreOf, top_n),
                               taken |-> top_n]]
    /\ UNCHANGED <<driverVars, graphVars, calls>>

ContractNext ==
    \/ CallRouteDecision
    \/ CallParseFormatHint
    \/ CallNormalizeAnswer
    \/ CallSanitizeCitations
    \/ CallSynthesizerNode
    \/ CallTruncateExplanation
    \/ CallSqlGenAndExec
    \/ CallSearch

ContractSpec == Init /\ [][ContractNext]_vars

(***************************************************************************)
(* test_output_contract.py: validate_output_contract, as the set of the    *)
(* errors it reports for a record                                          *)
(***************************************************************************)
required_fields == {"id", "final_answer", "sql", "confidence", "explanation", "citations"}

validate_output_contract(record) ==
    {<<"Missing required field", f>> : f \in required_fields \ DOMAIN record}
    \cup (IF "confidence" \in DOMAIN record
              /\ ~(IsNumber(record.confidence) /\ AsFloat(record.confidence) \in 0..1000)
          THEN {<<"Invalid confidence">>} ELSE {})
    \cup (IF "sql" \in DOMAIN record /\ record.sql \notin STRING
          THEN {<<"SQL must be string">>} ELSE {})
    \cup (IF "explanation" \in DOMAIN record /\ record.explanation \notin STRING
          THEN {<<"Explanation must be string">>} ELSE {})
    \cup (IF "explanation" \in DOMAIN record /\ Len(record.explanation) > 250
          THEN {<<"Explanation too long">>} ELSE {})
    \cup (IF "citations" \in DOMAIN record /\ record.citations \notin Seq(STRING)
          THEN {<<"Citations must be list of strings">>} ELSE {})

(***************************************************************************)
(* The claims                                                              *)
(***************************************************************************)
\* a sql_exec that failed three times in the running invocation
ThreeFailures == calls.wfExec = 3 /\ calls.wfErr = 3

\* C1: for every question, over all attempts of main's while loop and all
\* repair cycles of the workflow, the query generator and the query executor
\* are each invoked at most 3 times before the question's record is emitted.
C1_AtMostThreeAttempts == calls.gen <= 3 /\ calls.exec <= 3

\* C2: in every state of processing a question, repair_count is between 0 and
\* 2, in main's loop as in the state of the workflow.
C2_RepairCountInRange == repair_count \in 0..2 /\ state.repair_count \in 0..2

C2_Witness ==
    /\ pc = "invoke"
    /\ repair_count = 1
    /\ state.repair_count = 2
    /\ calls.wfRepair = 1

\* the running invocation was started by main with repair_count 0 on a question
\* classified sql or hybrid, and every call of the executor returned an error
AlwaysFailingFromZero ==
    /\ pc = "invoke"
    /\ repair_count = 0
    /\ route_decision(state) \in {"sql", "hybrid"}
    /\ calls.wfExec = calls.wfErr

\* C3: such an invocation has made exactly 3 generate/execute attempts and 2
\* repairs when the synthesizer is scheduled, and after the third failed
\* execution the synthesizer is what is scheduled.
C3_ThreeAttemptsTwoRepairs ==
    AlwaysFailingFromZero =>
        /\ "synthesizer" \in stepNodes =>
                calls.wfGen = 3 /\ calls.wfExec = 3 /\ calls.wfRepair = 2
        /\ ThreeFailures => stepNodes = {"synthesizer"}

C3_Witness ==
    /\ AlwaysFailingFromZero
    /\ route_decision(state) = "hybrid"
    /\ ThreeFailures
    /\ calls.wfGen = 3
    /\ calls.wfRepair = 2
    /\ stepNodes = {"synthesizer"}

\* C4: when a collaborator raised while a question was processed, the record
\* of the question has confidence 0.0, no citations, an empty sql and a
\* non-empty explanation.
C4_ExceptionRecord ==
    (pc = "score" /\ calls.raised > 0) =>
        LET record == OutputRecord(questions[idx])
        IN  /\ record.confidence = FloatV(0)
            /\ record.citations = <<>>
            /\ record.sql = ""
            /\ record.explanation # ""

\* the records appended so far are those of the first questions, in order
OneRecordPerQuestion ==
    /\ Len(results) = idx - 1
    /\ Len(results) <= Len(questions)
    /\ \A i \in 1..Len(results) : results[i].id = questions[i].id

\* C5: main appends exactly one record per question, in input order, whatever
\* the collaborators return or raise, and every question of the batch gets
\* its record: no failure stops the batch.
C5_OneRecordPerQuestionInOrder ==
    /\ []OneRecordPerQuestion
    /\ <>(pc = "done" /\ Len(results) = Len(questions))

C5_Witness ==
    /\ pc = "done"
    /\ Len(results) = Len(questions)
    /\ IsNone(results[1].final_answer)
    /\ results[Len(results)].id = questions[Len(questions)].id
    /\ results[Len(results)].confidence = FloatV(1000)

\* C6: the final_answer of every record is a value of the type the format
\* hint of its question resolves to, never null.
C6_AnswerOfHintType ==
    \A i \in 1..Len(results) :
        results[i].final_answer.t = parse_format_hint(questions[i].format_hint)

\* C7: every record main appends passes validate_output_contract.
C7_RecordsPassContract ==
    \A i \in 1..Len(results) : validate_output_contract(results[i]) = {}

C7_Witness ==
    /\ pc = "done"
    /\ \E i \in 1..Len(results) :
            /\ Len(results[i].explanation) \in 1..250
            /\ Len(results[i].explanation) < Len(Strip(LongExplanation))
            /\ results[i].citations # <<>>

\* the confidence table of the contract
ConfidenceTable(has_execution_error, is_format_valid) ==
    CASE ~has_execution_error /\ is_format_valid -> FloatV(1000)
      [] ~has_execution_error /\ ~is_format_valid -> FloatV(500)
      [] has_execution_error /\ is_format_valid -> FloatV(500)
      [] has_execution_error /\ ~is_format_valid -> FloatV(0)

\* C8: the confidence of a record is one of 0.0, 0.5, 1.0 and is the entry of
\* the table for (has_execution_error, is_format_valid) of its question; the
\* two are main's sql_error and is_valid once the record is appended.
C8_ConfidenceFollowsTable ==
    /\ \A i \in 1..Len(results) :
            results[i].confidence \in {FloatV(0), FloatV(500), FloatV(1000)}
    /\ (pc \in {"for", "done"} /\ idx > 1) =>
            results[idx - 1].confidence = ConfidenceTable(~IsNone(sql_error), is_valid)

C8_Witness ==
    /\ pc = "for"
    /\ idx > 1
    /\ ~IsNone(sql_error)
    /\ ~is_valid
    /\ results[idx - 1].confidence = FloatV(0)

\* C9: a workflow invocation ends; unless a collaborator raised, it ends
\* after the synthesizer ran at least once.
C9_InvocationSynthesizesAndEnds ==
    (pc = "invoke") ~> (pc = "except" \/ (pc = "post" /\ calls.wfSynth >= 1))

C9_Witness ==
    /\ pc = "post"
    /\ calls.wfSynth >= 1
    /\ ThreeFailures
    /\ route_decision(state) = "sql"

\* C10: within an invocation at most one node is scheduled at a time, and
\* the synthesizer has run exactly once when the invocation returns.
C10_OneNodeAtATime ==
    /\ Cardinality(stepNodes) <= 1
    /\ pc = "post" => calls.wfSynth = 1

\* the router of the running invocation has returned: state.classification is set
RouterDone == pc \in {"invoke", "post"} /\ stepNodes # {"router"}

\* C11: in an invocation the retriever runs if and only if the classification
\* routes to rag or hybrid (never for sql), and for a hybrid classification
\* the retriever has returned before the first sql_gen step starts.
C11_RetrievalOnlyForRagAndHybrid ==
    /\ (pc = "invoke" /\ ~RouterDone) => calls.wfRetr = 0
    /\ RouterDone =>
        /\ route_decision(state) = "sql" =>
                calls.wfRetr = 0 /\ "retriever" \notin stepNodes
        /\ route_decision(state) \in {"rag", "hybrid"} =>
                (stepNodes = {"retriever"} /\ calls.wfRetr = 0)
                    \/ ("retriever" \notin stepNodes /\ calls.wfRetr = 1)
        /\ (route_decision(state) = "hybrid"
                /\ ("sql_gen" \in stepNodes \/ calls.wfGen > 0)) =>
                calls.wfRetr = 1 /\ "retriever" \notin stepNodes

C11_Witness ==
    /\ RouterDone
    /\ route_decision(state) = "hybrid"
    /\ stepNodes = {"sql_gen"}
    /\ calls.wfRetr = 1
    /\ calls.wfGen = 0
    /\ state.doc_context # <<>>

\* C12: in a hybrid invocation whose retrieval returned at least one chunk,
\* the constraints passed to every sql_gen call (the first and each one after
\* a repair) are non-empty.
C12_ConstraintsReachGenerator ==
    (RouterDone /\ Due("sql_gen") /\ route_decision(state) = "hybrid"
        /\ state.doc_context # <<>>) =>
        sql_gen_inputs(state).constraints # ""

C12_Witness ==
    /\ RouterDone
    /\ Due("sql_gen")
    /\ route_decision(state) = "hybrid"
    /\ state.doc_context # <<>>
    /\ calls.wfRepair = 2
    /\ Contains(sql_gen_inputs(state).constraints, "kpi_definitions::chunk0")

\* C13: in an invocation classified rag no query is generated or executed,
\* and the synthesizer is given "No SQL executed" as the query-result text.
C13_RagRunsNoQuery ==
    (RouterDone /\ route_decision(state) = "rag") =>
        /\ calls.wfGen = 0
        /\ calls.wfExec = 0
        /\ "sql_gen" \notin stepNodes
        /\ Due("synthesizer") => synthesizer_inputs(state).sql_result = "No SQL executed"

\* C14: for every label the backend may return, the route is hybrid when the
\* lower-cased trimmed label contains "hybrid", else sql when it contains
\* "sql", else rag; no other route comes out.
C14_RoutingPolicy ==
    probe.fn = "route_decision" =>
        /\ probe.out \in {"sql", "rag", "hybrid"}
        /\ \E label \in {Strip(Lower(probe.arg[1]))} :
              probe.out = IF Contains(label, "hybrid") THEN "hybrid"
                          ELSE IF Contains(label, "sql") THEN "sql"
                          ELSE "rag"

C14_Witness ==
    /\ probe.fn = "route_decision"
    /\ probe.arg = <<"Hybrid, then SQL">>
    /\ probe.out = "hybrid"

\* the type the literal rules give for the hint h, in their order
RuleType(h) ==
    IF h = "int" THEN "int"
    ELSE IF h = "float" THEN "float"
    ELSE IF Len(h) >= 1 /\ Ch(h, 1) = "{" /\ Ch(h, Len(h)) = "}" THEN "dict"
    ELSE IF Len(h) >= 4 /\ SubSeq(h, 1, 4) = "list" THEN "list"
    ELSE "str"

\* C15, as claimed: the expected type is resolved from the format hint itself
\* by the literal rules, in order: equal to "int", equal to "float", starting
\* with "{" and ending with "}", starting with "list", else string.
C15_TypeFromHintAsGiven ==
    probe.fn = "parse_format_hint" => probe.out = RuleType(probe.arg[1])

\* C15, amended: the rules are applied to the hint with the whitespace around
\* it removed.
C15_TypeFromTrimmedHint ==
    probe.fn = "parse_format_hint" => probe.out = RuleType(Strip(probe.arg[1]))

C15_Witness ==
    /\ probe.fn = "parse_format_hint"
    /\ probe.arg = <<" {a:int} ">>
    /\ probe.out = "dict"

\* C16: for every hint and every raw answer of any shape normalize_answer
\* returns a pair (value, is_valid); the value has the expected type, and
\* is_valid is false exactly when the type's default was substituted because
\* the raw answer could not be coerced.
C16_NormalizeReturnsPair ==
    probe.fn = "normalize_answer" =>
        /\ probe.out.returns = "pair"
        /\ probe.out.val.t = parse_format_hint(probe.arg[2])
        /\ ~probe.out.is_valid => probe.out.val = defaults(parse_format_hint(probe.arg[2]))

\* the string s is one the rejection rule names
Rejected(s) ==
    \E l \in {Lower(s)} :
        l \in {"na", "n/a", "no answer", "none"} \/ Contains(l, "not applicable")

\* C17: a string raw answer equal, whatever its case, to na, n/a, no answer or
\* none, or containing "not applicable", makes normalize_answer return the
\* default of the expected type and false, for every hint, string hints included.
C17_RejectionRule ==
    (probe.fn = "normalize_answer" /\ IsStr(probe.arg[1]) /\ Rejected(probe.arg[1].v)) =>
        probe.out = NPair(defaults(parse_format_hint(probe.arg[2])), FALSE)

C17_Witness ==
    /\ probe.fn = "normalize_answer"
    /\ probe.arg = <<StrV("It is Not Applicable here"), "str">>
    /\ probe.out = NPair(StrV(""), FALSE)

\* well-formed raw values of the shape the hint asks for, with the value expected
WellFormedCases ==
    {[hint |-> "int", raw |-> IntV(42), expect |-> IntV(42)],
     [hint |-> "int", raw |-> IntV(-7), expect |-> IntV(-7)],
     [hint |-> "int", raw |-> StrV("42"), expect |-> IntV(42)],
     [hint |-> "float", raw |-> FloatV(12346), expect |-> FloatV(12350)],
     [hint |-> "float", raw |-> StrV("12.346"), expect |-> FloatV(12350)],
     [hint |-> "{category:str, quantity:int}",
      raw |-> DictV(<< <<StrV("category"), StrV("Beverages")>>, <<StrV("quantity"), IntV(3)>> >>),
      expect |-> DictV(<< <<StrV("category"), StrV("Beverages")>>, <<StrV("quantity"), IntV(3)>> >>)],
     [hint |-> "list[str]", raw |-> ListV(<<StrV("Chai"), StrV("Tofu")>>),
      expect |-> ListV(<<StrV("Chai"), StrV("Tofu")>>)],
     [hint |-> "str", raw |-> StrV("hello world"), expect |-> StrV("hello world")],
     [hint |-> "str", raw |-> StrV("abc"), expect |-> StrV("abc")],
     [hint |-> "str", raw |-> StrV("42"), expect |-> StrV("42")],
     [hint |-> "str", raw |-> StrV("1.50"), expect |-> StrV("1.50")],
     [hint |-> "str", raw |-> StrV("'Chai'"), expect |-> StrV("'Chai'")]}

BareIdentifier(e) ==
    /\ Len(e) \in 1..49
    /\ Ch(e, 1) \in AlphaSet \cup {"_"}
    /\ \A i \in 2..Len(e) : Ch(e, i) \in AlphaSet \cup DigitSet \cup {"_"}

\* C19: the output of sanitize_citations is sorted, has no duplicates, and
\* each of its elements, those taken from the query text included, contains
\* "::chunk" or is a bare identifier.
C19_SanitizedSortedAndValid ==
    probe.fn = "sanitize_citations" =>
        /\ \A i, j \in 1..Len(probe.out) : i < j => StrLess(probe.out[i], probe.out[j])
        /\ \A i \in 1..Len(probe.out) :
              Contains(probe.out[i], "::chunk") \/ BareIdentifier(probe.out[i])

\* the tables the query texts reference after FROM, JOIN, INTO, UPDATE or
\* DELETE FROM, for each quoting style
ReferencedTables ==
    {[sql |-> "SELECT COUNT(*) FROM Orders", tables |-> {"Orders"}],
     [sql |-> "SELECT * FROM Orders o JOIN Products p ON o.ProductID = p.ProductID",
      tables |-> {"Orders", "Products"}],
     [sql |-> "select ProductName from " \o Backquote \o "Products" \o Backquote,
      tables |-> {"Products"}],
     [sql |-> "SELECT * FROM \"Customers\" JOIN \"Order Details\" USING (OrderID)",
      tables |-> {"Customers", "Order Details"}],
     [sql |-> "SELECT SUM(Quantity) FROM [Order Details] JOIN Orders USING (OrderID)",
      tables |-> {"Order Details", "Orders"}],
     [sql |-> "INSERT INTO Categories VALUES (1)", tables |-> {"Categories"}],
     [sql |-> "UPDATE Products SET UnitPrice = 1", tables |-> {"Products"}],
     [sql |-> "DELETE  FROM Orders WHERE OrderID = 1", tables |-> {"Orders"}]}

\* C20: the citations of a record contain at least every table the executed
\* query references after FROM, JOIN, INTO, UPDATE or DELETE FROM, whether the
\* name is bare, back-quoted, double-quoted or in brackets with a space.
C20_CitationsCoverQueriedTables ==
    probe.fn = "sanitize_citations" =>
        \A c \in ReferencedTables :
            probe.arg[2] = c.sql => c.tables \subseteq Range(probe.out)

\* an entry of the raw citations passes validation
Passes(e) == Contains(e, "::chunk") \/ BareIdentifier(e)

\* the string entries of raw citations (a single string counts as one entry)
Entries(raw) ==
    CASE raw.t = "list" -> {c.v : c \in {x \in Range(raw.v) : IsStr(x)}}
      [] raw.t = "str" -> {raw.v}
      [] OTHER -> {}

\* C21, as claimed: the output of sanitize_citations is exactly the names
\* extracted from the query text together with the entries of the raw
\* citations that pass validation as they are.
C21_UnionOfExtractedAndPassing ==
    probe.fn = "sanitize_citations" =>
        Range(probe.out) =
            FindTables(probe.arg[2], 1) \cup {e \in Entries(probe.arg[1]) : Passes(e)}

\* C21, amended: the entries are validated, and taken into the output, with
\* the whitespace around them removed.
C21_UnionOfExtractedAndTrimmedPassing ==
    probe.fn = "sanitize_citations" =>
        Range(probe.out) =
            FindTables(probe.arg[2], 1)
                \cup {e \in {Strip(x) : x \in Entries(probe.arg[1])} : Passes(e)}

C21_Witness ==
    /\ probe.fn = "sanitize_citations"
    /\ probe.arg[2] = "SELECT * FROM Orders o JOIN Products p ON o.ProductID = p.ProductID"
    /\ probe.out = <<"Orders", "Products", "a_table", "b_table",
                     "in product_policy::chunk2 (returns)">>

\* C22: citations returned as the serialization of a list are parsed back to
\* that list, element for element; a string that is no literal becomes the
\* one-element list holding it; a list is passed through unchanged.
C22_CitationsRoundTrip ==
    probe.fn = "synthesizer_node" =>
        /\ \A l \in CitationLists : probe.arg = <<StrV(PyRepr(l))>> => probe.out = l
        /\ \A c \in UnparsableCitations :
                probe.arg = <<StrV(c)>> => probe.out = ListV(<<StrV(c)>>)
        /\ probe.arg[1].t = "list" => probe.out = probe.arg[1]

C22_Witness ==
    /\ probe.fn = "synthesizer_node"
    /\ probe.arg = <<StrV("['Orders', \"the customers' table\", 'marketing_calendar::chunk1']")>>
    /\ probe.out = ListV(<<StrV("Orders"), StrV("the customers' table"),
                           StrV("marketing_calendar::chunk1")>>)

\* the first k of the sentences ss, with one space between them
RECURSIVE LeadingRun(_, _)
LeadingRun(ss, k) ==
    IF k = 0 THEN ""
    ELSE IF k = 1 THEN ss[1]
    ELSE LeadingRun(ss, k - 1) \o " " \o ss[k]

\* the longest run of whole leading sentences of raw within n characters
LongestRunWithin(raw, n) ==
    LET ss == SplitSentences(Strip(raw), 1)
        fits == {j \in 0..Len(ss) : Len(LeadingRun(ss, j)) <= n}
    IN  LeadingRun(ss, CHOOSE k \in fits : \A j \in fits : j <= k)

\* C23: the output of truncate_explanation has at most 250 characters, and
\* for a raw explanation longer than that it is the longest run of whole
\* leading sentences that fits within 250 characters.
C23_ExplanationCutAtSentence ==
    probe.fn = "truncate_explanation" =>
        /\ Len(probe.out) <= 250
        /\ Len(probe.arg[1]) > 250 => probe.out = LongestRunWithin(probe.arg[1], 250)

\* C24: when every question is classified sql and the executor fails on every
\* call, the record of a question, no collaborator having raised, has
\* confidence 0.0 or 0.5 and a non-empty explanation.
C24_FailedQueryRecord ==
    (pc = "score" /\ calls.raised = 0) =>
        /\ OutputRecord(questions[idx]).confidence \in {FloatV(0), FloatV(500)}
        /\ OutputRecord(questions[idx]).explanation # ""

\* C25: when the generated text is empty once fences and whitespace are
\* removed, execution does not crash: sql_error is set, and the next step is
\* repair while repair_count < 2 and the synthesizer otherwise.
C25_EmptyQueryIsExecutionError ==
    (probe.fn = "sql_exec_node" /\ probe.out.sql_query = "") =>
        /\ IsStr(probe.out.sql_error)
        /\ probe.out.sql_error.v # ""
        /\ probe.out.next = IF probe.arg[2] < 2 THEN {"repair"} ELSE {"synthesizer"}

C25_Witness ==
    /\ probe.fn = "sql_exec_node"
    /\ probe.arg = <<FenceSql \o "\n" \o Fence, 1>>
    /\ probe.out.sql_query = ""
    /\ probe.out.next = {"repair"}

\* C26: a query that executes and returns zero rows is a success: sql_error
\* is left empty, the next step is the synthesizer and not a repair, and the
\* confidence is that of an attempt without execution error.
C26_ZeroRowsIsSuccess ==
    (probe.fn = "sql_exec_node" /\ probe.out.result.t = "str"
        /\ probe.out.result = ZeroRows) =>
        /\ IsNone(probe.out.sql_error)
        /\ probe.out.next = {"synthesizer"}
        /\ \A valid \in BOOLEAN :
              confidence(~IsNone(probe.out.sql_error), valid)
                  = IF valid THEN FloatV(1000) ELSE FloatV(500)

C26_Witness ==
    /\ probe.fn = "sql_exec_node"
    /\ probe.arg = <<"SELECT 1", 0>>
    /\ probe.out.result = ZeroRows
    /\ IsNone(probe.out.sql_error)

\* the workflow state made of the question q alone
FreshState(q) ==
    [question |-> q.question, format_hint |-> q.format_hint,
     repair_count |-> 0, sql_error |-> NoneV,
     classification |-> "", schema |-> "", doc_context |-> <<>>,
     constraints |-> "", sql_query |-> "", sql_result |-> NoneV,
     final_answer |-> NoneV, explanation |-> StrV(""), citations |-> ListV(<<>>)]

\* C27: nothing produced for an earlier question reaches a later one: the
\* first invocation for a question starts from the state made of that
\* question alone, with main's locals at their initial values, and a record
\* none of whose attempts got past the workflow holds those initial values.
C27_NothingCarriedOver ==
    /\ (pc = "invoke" /\ stepNodes = {"router"} /\ repair_count = 0) =>
            /\ state = FreshState(questions[idx])
            /\ IsNone(final_answer) /\ sql_query = "" /\ citations = <<>>
            /\ explanation = "" /\ IsNone(sql_error) /\ ~is_valid
    /\ (pc = "score" /\ calls.raised = 3) =>
            /\ IsNone(OutputRecord(questions[idx]).final_answer)
            /\ OutputRecord(questions[idx]).sql = ""
            /\ OutputRecord(questions[idx]).citations = <<>>
            /\ OutputRecord(questions[idx]).explanation = ""
            /\ OutputRecord(questions[idx]).confidence = FloatV(500)

C27_Witness ==
    /\ idx = 2
    /\ results[1].sql # ""
    /\ results[1].explanation # ""
    /\ results[1].citations # <<>>
    /\ results[1].final_answer = IntV(42)
    /\ results[1].confidence = FloatV(500)
    /\ pc = "invoke"
    /\ stepNodes = {"router"}
    /\ repair_count = 0
    /\ state = FreshState(questions[2])

\* the first attempt of a sql-classified question has returned from a workflow
\* whose only execution succeeded, with an answer well-formed for the hint
FirstAttemptSucceeded ==
    /\ pc = "post"
    /\ repair_count = 0
    /\ route_decision(state) = "sql"
    /\ calls.wfExec = 1
    /\ calls.wfErr = 0
    /\ \E norm \in {normalize_answer(state.final_answer, questions[idx].format_hint)} :
            norm.returns # "none" /\ norm.is_valid

\* C28: for a sql-classified question whose first execution succeeds and whose
\* synthesized answer is well-formed for the format hint, the workflow is
\* invoked exactly once (the attempt is followed by the record, not by a
\* retry), and the record has confidence 1.0, a non-empty sql field equal to
\* the executed query, and the normalized answer.
C28_SuccessAtOnce ==
    [][FirstAttemptSucceeded =>
        /\ calls.invocations = 1
        /\ pc' = "score"
        /\ repair_count' = 0
        /\ calls'.invocations = 1
        /\ OutputRecord(questions[idx])'.confidence = FloatV(1000)
        /\ OutputRecord(questions[idx])'.sql # ""
        /\ OutputRecord(questions[idx])'.sql = state.sql_query
        /\ OutputRecord(questions[idx])'.final_answer
              = normalize_answer(state.final_answer, questions[idx].format_hint).val]_vars

C28_Witness ==
    /\ pc = "score"
    /\ repair_count = 0
    /\ calls.invocations = 1
    /\ calls.exec = 1
    /\ is_valid
    /\ IsNone(sql_error)
    /\ sql_query = "SELECT COUNT(*) FROM Orders"
    /\ final_answer = IntV(42)
    /\ OutputRecord(questions[idx]).confidence = FloatV(1000)

Retries == pc' = "while" /\ repair_count' = repair_count + 1

\* the step leaves the loop with the repair counter as it is
Stops == pc' = "score" /\ repair_count' = repair_count

\* C30: the workflow is invoked at most 3 times for a question, the n-th
\* invocation running with repair_count = n - 1. An attempt whose
\* post-processing went through is followed by the record if the answer is
\* valid and there is no SQL error, by a retry if not and repair_count < 2,
\* and by the record otherwise; an attempt that raised is followed by a retry
\* if repair_count < 2 and by the record otherwise.
C30_BoundedRetry ==
    /\ [](/\ calls.invocations <= 3
          /\ pc \in {"invoke", "post", "except"} => calls.invocations = repair_count + 1)
    /\ [][/\ (pc = "while") => (pc' = "invoke" /\ repair_count' = repair_count)
          /\ (pc = "post" /\ pc' # "except") =>
                IF is_valid' /\ IsNone(sql_error') THEN Stops
                ELSE IF repair_count < 2 THEN Retries
                ELSE Stops
          /\ (pc = "post" /\ pc' = "except") => repair_count' = repair_count
          /\ (pc = "except") => IF repair_count < 2 THEN Retries ELSE Stops]_vars

C30_Witness ==
    /\ pc = "score"
    /\ calls.invocations = 3
    /\ repair_count = 2
    /\ calls.raised = 1
    /\ is_valid
    /\ ~IsNone(sql_error)

\* C31: the sql text and the execution error of a record describe an
\* execution of the last invocation for the question. An invocation that
\* returns hands main the query and the error of its own execution; when the
\* last invocation (repair_count = max_repairs) raises before any query was
\* executed, the values main keeps for the record, which the except clause
\* does not touch, are no error and no sql.
C31_RecordDescribesLastExecution ==
    [][/\ (pc = "post") =>
            /\ calls.wfExec >= 1
            /\ sql_error' = state.sql_error
            /\ sql_query' = Strip(state.sql_query)
       /\ (pc = "invoke" /\ pc' = "except" /\ repair_count = max_repairs
             /\ calls'.wfExec = 0) =>
            /\ IsNone(sql_error')
            /\ sql_query' = ""
       /\ (pc = "except") => UNCHANGED <<sql_error, sql_query>>]_vars

\* C32: an attempt that ends in an exception, raised in the workflow or while
\* its result is post-processed, leaves final_answer, is_valid, sql_query,
\* sql_error, citations and explanation as they were, all six of them, and so
\* does the except clause: the record is made of the values of one attempt.
C32_ExceptionKeepsValuesTogether ==
    [][(pc' = "except" \/ pc = "except") =>
            UNCHANGED <<final_answer, is_valid, sql_query, sql_error,
                        citations, explanation>>]_vars

\* C33: search returns at most top_k matches, their ids are pairwise
\* distinct, and the id of each match is the id of the corpus position its
\* text was taken from, also when two chunks have the same text.
C33_SearchIdsDistinctAndOwn ==
    probe.fn = "search" =>
        LET corpus == probe.arg[1]
            found == probe.out.results
        IN  /\ Len(found) <= probe.arg[2]
            /\ \A i, j \in 1..Len(found) : i # j => found[i].id # found[j].id
            /\ \A i \in 1..Len(found) :
                    found[i].id = chunk_ids(corpus)[probe.out.taken[i]]

====
